---- MODULE Spec2Model ----
(***************************************************************************)
(* State-machine model of the App component (src/unnamed/part_000): the    *)
(* session lifecycle controller (connectToGemini / disconnect and the      *)
(* onopen / onmessage / onclose / onerror callbacks), the capture pipeline *)
(* (scriptProcessor.onaudioprocess) and the playback scheduler             *)
(* (nextStartTimeRef / audioSourcesRef).                                   *)
(*                                                                         *)
(* Every await of the source is a suspension point: the code before it and *)
(* the code after it are separate steps, and any other callback of the     *)
(* event loop may run in between.  A continuation of an already resolved   *)
(* promise is a microtask: it runs before the next callback, so it is part *)
(* of the step that queued it.                                             *)
(***************************************************************************)
EXTENDS Integers, Sequences, FiniteSets, TLC

\* ------------------------------------------------------------------ bounds
MaxSessions == 2            \* connect attempts made in one run
PlaybackSessions == 1       \* connect attempts made in one run of SpecPlayback
ReconnectPayloads == 1      \* inbound audio payloads in one run of SpecReconnect
MaxPayloads == 2            \* inbound audio payloads received in one run
MaxFrames == 2              \* capture ticks (onaudioprocess events) in one run
MaxTime == 2                \* last value of the output clock (outputCtx.currentTime)
MaxDuration == 2            \* longest decoded audioBuffer.duration
MaxPendingDisconnects == 2  \* disconnect() calls suspended on one session promise

NULL == 0

Sessions == 1..MaxSessions
Durations == 1..MaxDuration

Max(a, b) == IF a >= b THEN a ELSE b
Min(a, b) == IF a <= b THEN a ELSE b

\* ------------------------------------------------------------------- state
VARIABLES
    connectionState,    \* useState<ConnectionState>
    isMicOn,            \* useState(true)
    errorMsg,           \* useState<string | null>; "null" is null
    apiKey,             \* process.env.API_KEY is set
    inputCtxState,      \* inputAudioContextRef.current.state
    outputCtxState,     \* outputAudioContextRef.current.state
    currentTime,        \* outputCtx.currentTime, the output clock
    streamRef,          \* the attempt whose MediaStream streamRef holds, or NULL
    sourceRef,          \* the attempt whose MediaStreamAudioSourceNode sourceRef holds
    processorRef,       \* the attempt whose ScriptProcessorNode processorRef holds
    streamLive,         \* attempts whose MediaStream still has live tracks
    sourceConn,         \* attempts whose source node is connected
    procConn,           \* attempts whose script processor is connected
    nextStartTime,      \* nextStartTimeRef.current
    audioSources,       \* audioSourcesRef.current: payloads whose source is tracked
    sessionPromiseRef,  \* the attempt whose sessionPromise the ref holds, or NULL
    pc,                 \* where each call of connectToGemini stands
    micCaptured,        \* the isMicOn each call of connectToGemini closed over
    remote,             \* the remote session of each attempt
    promise,            \* the sessionPromise of each attempt
    waiters,            \* reactions registered on a pending sessionPromise, in order
    payloads,           \* inbound audio payloads and their sources, in arrival order;
                        \* pre is history: what preceded the payload while it is
                        \* being decoded ("cut", "fresh" or "chained")
    sched,              \* sources started since the last stopAudioOutput, in the
                        \* order of the source.start calls (history)
    frames,             \* capture ticks, in order
    sent,               \* sendRealtimeInput calls, in order
    discStreak,         \* disconnect() calls since the last other step (history)
    cancelled,          \* disconnect() was called and connectToGemini has not been
                        \* called since (history)
    interruptedClean    \* an interrupted message was handled and no audio payload
                        \* has arrived since (history)

uiVars      == <<connectionState, isMicOn, errorMsg>>
envVars     == <<apiKey, inputCtxState, outputCtxState>>
captureVars == <<streamRef, sourceRef, processorRef, streamLive, sourceConn, procConn>>
playVars    == <<nextStartTime, audioSources, payloads, sched>>
sessVars    == <<sessionPromiseRef, remote, promise, waiters>>
frameVars   == <<frames, sent>>
attemptVars == <<pc, micCaptured>>

vars == <<uiVars, envVars, currentTime, captureVars, playVars, sessVars,
          frameVars, attemptVars, discStreak, cancelled, interruptedClean>>

GenericError == "Connection error. Please try again."

Init ==
    /\ connectionState = "disconnected"
    /\ isMicOn = TRUE
    /\ errorMsg = "null"
    /\ apiKey \in BOOLEAN
    /\ inputCtxState = "suspended"
    /\ outputCtxState = "suspended"
    /\ currentTime = 0
    /\ streamRef = NULL
    /\ sourceRef = NULL
    /\ processorRef = NULL
    /\ streamLive = {}
    /\ sourceConn = {}
    /\ procConn = {}
    /\ nextStartTime = 0
    /\ audioSources = {}
    /\ sessionPromiseRef = NULL
    /\ pc = [a \in Sessions |-> "idle"]
    /\ micCaptured = [a \in Sessions |-> TRUE]
    /\ remote = [a \in Sessions |-> "none"]
    /\ promise = [a \in Sessions |-> "none"]
    /\ waiters = [a \in Sessions |-> <<>>]
    /\ payloads = <<>>
    /\ sched = <<>>
    /\ frames = <<>>
    /\ sent = <<>>
    /\ discStreak = 0
    /\ cancelled = FALSE
    /\ interruptedClean = FALSE

\* ------------------------------------------------- stopAudioInput / Output
\* stopAudioInput: disconnect the nodes the refs hold, stop the tracks of the
\* stream the ref holds, null the refs.
StopAudioInput ==
    /\ procConn' = procConn \ {processorRef}
    /\ processorRef' = NULL
    /\ sourceConn' = sourceConn \ {sourceRef}
    /\ sourceRef' = NULL
    /\ streamLive' = streamLive \ {streamRef}
    /\ streamRef' = NULL

\* source.stop() on every tracked source: a source that plays or waits for its
\* start time is stopped; stopping one that has ended does nothing.
StoppedUnits(ps, tracked) ==
    [i \in DOMAIN ps |->
        IF i \in tracked /\ ps[i].st = "playing"
        THEN [ps[i] EXCEPT !.st = "stopped", !.end = 0]
        ELSE ps[i]]

\* History: a stopAudioOutput ran while the handlers of these payloads were
\* suspended in decodeAudioData.
FlushSeen(ps) ==
    [i \in DOMAIN ps |->
        IF ps[i].st = "decoding" THEN [ps[i] EXCEPT !.pre = "cut"] ELSE ps[i]]

\* A flush that leaves the cursor where it was.
CursorKept == nextStartTime

\* nextStartTimeRef.current = 0 at the end of stopAudioOutput
FlushedCursor == 0

StopAudioOutput ==
    /\ payloads' = FlushSeen(StoppedUnits(payloads, audioSources))
    /\ sched' = <<>>
    /\ audioSources' = {}
    /\ nextStartTime' = FlushedCursor

\* ------------------------------------------------------------- disconnect
\* session.close(): an open session starts closing (its onclose follows); the
\* call is wrapped in try/catch, so a throw changes nothing.
CloseSession(rem, s) ==
    [rem EXCEPT ![s] = IF @ = "open" THEN "closing" ELSE @]

\* The reactions registered on sessionPromise s run in registration order when
\* it resolves: a frame number f is the then-callback of a capture tick
\* (session.sendRealtimeInput), 0 is the rest of a suspended disconnect()
\* (session.close(); sessionPromiseRef.current = null).
RECURSIVE RunWaiters(_, _, _)
RunWaiters(s, q, st) ==
    IF q = <<>> THEN st
    ELSE LET h == Head(q) IN
         RunWaiters(s, Tail(q),
            IF h = 0
            THEN [st EXCEPT !.rem = CloseSession(@, s), !.ref = NULL]
            ELSE [st EXCEPT !.sent =
                    Append(@, [s |-> s, f |-> h, open |-> st.rem[s] = "open"])])

PendingDisconnects(s) ==
    Cardinality({i \in DOMAIN waiters[s] : waiters[s][i] = 0})

\* disconnect() can be called: a call that would suspend on a pending promise
\* is counted against MaxPendingDisconnects.
CanDisconnect ==
    IF sessionPromiseRef = NULL THEN TRUE
    ELSE IF promise[sessionPromiseRef] = "resolved" THEN TRUE
    ELSE PendingDisconnects(sessionPromiseRef) < MaxPendingDisconnects

\* The state disconnect() sets first.
DisconnectedState == "disconnected"

\* disconnect(): setConnectionState, stopAudioInput, stopAudioOutput, then, if
\* a session promise is stored, await it, close the session and null the ref.
\* rem is the remote state the caller leaves behind.
DisconnectBody(rem) ==
    /\ connectionState' = DisconnectedState
    /\ StopAudioInput
    /\ StopAudioOutput
    /\ IF sessionPromiseRef = NULL
       THEN /\ remote' = rem
            /\ UNCHANGED <<sessionPromiseRef, waiters>>
       ELSE IF promise[sessionPromiseRef] = "resolved"
       THEN /\ remote' = CloseSession(rem, sessionPromiseRef)
            /\ sessionPromiseRef' = NULL
            /\ UNCHANGED waiters
       ELSE /\ remote' = rem
            /\ waiters' = [waiters EXCEPT ![sessionPromiseRef] = Append(@, 0)]
            /\ UNCHANGED sessionPromiseRef

\* disconnect() called by the hang-up button, by the unmount cleanup or by any
\* other caller, at any time.
Disconnect ==
    /\ discStreak' = Min(discStreak + 1, 2)
    /\ cancelled' = TRUE
    /\ CanDisconnect
    /\ DisconnectBody(remote)
    /\ UNCHANGED <<isMicOn, errorMsg, envVars, currentTime, promise, frameVars,
                   attemptVars, interruptedClean>>

\* ------------------------------------------------------- connectToGemini
\* The first call of connectToGemini not made yet.
NextAttempt == CHOOSE a \in Sessions : pc[a] = "idle" /\ \A b \in 1..(a-1) : pc[b] # "idle"

\* The agent cards (handleAgentSelect) are rendered unless the state is
\* connecting, or connected with an agent selected.
CanSelectAgent == connectionState \in {"disconnected", "error"}

\* A catch block that gives up the attempt without reporting the error state.
CatchStateDisconnected == "disconnected"

\* The state the catch block of connectToGemini sets.
CatchState == "error"

\* catch (err): setErrorMsg(err.message || "Failed to connect"); setConnectionState('error')
ConnectCatch(a, msg, where) ==
    /\ errorMsg' = msg
    /\ connectionState' = CatchState
    /\ pc' = [pc EXCEPT ![a] = where]

\* Where connectToGemini goes after the stream is stored and after
\* inputCtx.resume(): each context is resumed only if it is suspended.
StageAfterStream ==
    IF inputCtxState = "suspended" THEN "resumeInput"
    ELSE IF outputCtxState = "suspended" THEN "resumeOutput"
    ELSE "returned"

StageAfterResumeInput ==
    IF outputCtxState = "suspended" THEN "resumeOutput" ELSE "returned"

\* Move on to the next await, or call ai.live.connect and store its promise.
Proceed(a, stage) ==
    /\ pc' = [pc EXCEPT ![a] = stage]
    /\ IF stage = "returned"
       THEN /\ remote' = [remote EXCEPT ![a] = "connecting"]
            /\ promise' = [promise EXCEPT ![a] = "pending"]
            /\ sessionPromiseRef' = a
       ELSE UNCHANGED <<remote, promise, sessionPromiseRef>>

\* handleAgentSelect -> connectToGemini, up to the first await or the throw
\* for a missing API key.
Connect ==
    /\ discStreak' = 0
    /\ cancelled' = FALSE
    /\ CanSelectAgent
    /\ \E a \in Sessions : pc[a] = "idle"
    /\ LET a == NextAttempt IN
       /\ micCaptured' = [micCaptured EXCEPT ![a] = isMicOn]
       /\ IF apiKey
          THEN /\ errorMsg' = "null"
               /\ connectionState' = "connecting"
               /\ pc' = [pc EXCEPT ![a] = "getUserMedia"]
          ELSE ConnectCatch(a, "API Key not found in environment variables", "failedKey")
    /\ UNCHANGED <<isMicOn, envVars, currentTime, captureVars, playVars, sessVars,
                   frameVars, interruptedClean>>

\* getUserMedia resolves: streamRef.current = stream, then on to the resumes.
GetUserMediaResolve(a) ==
    /\ discStreak' = 0
    /\ UNCHANGED cancelled
    /\ pc[a] = "getUserMedia"
    /\ streamRef' = a
    /\ streamLive' = streamLive \cup {a}
    /\ Proceed(a, StageAfterStream)
    /\ UNCHANGED <<uiVars, envVars, currentTime, sourceRef, processorRef, sourceConn,
                   procConn, playVars, waiters, frameVars, micCaptured,
                   interruptedClean>>

\* getUserMedia rejects (permission denied): the catch block.
GetUserMediaReject(a) ==
    /\ discStreak' = 0
    /\ UNCHANGED cancelled
    /\ pc[a] = "getUserMedia"
    /\ ConnectCatch(a, "Permission denied", "failedMic")
    /\ UNCHANGED <<isMicOn, envVars, currentTime, captureVars, playVars, sessVars,
                   frameVars, micCaptured, interruptedClean>>

\* inputCtx.resume() resolves.
ResumeInputResolve(a) ==
    /\ discStreak' = 0
    /\ UNCHANGED cancelled
    /\ pc[a] = "resumeInput"
    /\ inputCtxState' = "running"
    /\ Proceed(a, StageAfterResumeInput)
    /\ UNCHANGED <<uiVars, apiKey, outputCtxState, currentTime, captureVars, playVars,
                   waiters, frameVars, micCaptured, interruptedClean>>

\* outputCtx.resume() resolves.
ResumeOutputResolve(a) ==
    /\ discStreak' = 0
    /\ UNCHANGED cancelled
    /\ pc[a] = "resumeOutput"
    /\ outputCtxState' = "running"
    /\ Proceed(a, "returned")
    /\ UNCHANGED <<uiVars, apiKey, inputCtxState, currentTime, captureVars, playVars,
                   waiters, frameVars, micCaptured, interruptedClean>>

\* inputCtx.resume() or outputCtx.resume() rejects: the catch block, with the
\* stream already stored.
ResumeReject(a) ==
    /\ discStreak' = 0
    /\ UNCHANGED cancelled
    /\ pc[a] \in {"resumeInput", "resumeOutput"}
    /\ ConnectCatch(a, "Failed to connect", "failedResume")
    /\ UNCHANGED <<isMicOn, envVars, currentTime, captureVars, playVars, sessVars,
                   frameVars, micCaptured, interruptedClean>>

\* ------------------------------------------------------- session callbacks
\* The state onopen sets.
OpenState == "connected"

\* onopen: setConnectionState('connected'), create the source and the script
\* processor from the stream of this call, store them in the refs, connect
\* them.  The SDK resolves the session promise after the callback returns.
OnOpen(s) ==
    /\ discStreak' = 0
    /\ UNCHANGED cancelled
    /\ remote[s] = "connecting"
    /\ remote' = [remote EXCEPT ![s] = "open"]
    /\ promise' = [promise EXCEPT ![s] = "resolving"]
    /\ connectionState' = OpenState
    /\ sourceRef' = s
    /\ processorRef' = s
    /\ sourceConn' = sourceConn \cup {s}
    /\ procConn' = procConn \cup {s}
    /\ UNCHANGED <<isMicOn, errorMsg, envVars, currentTime, streamRef, streamLive,
                   playVars, sessionPromiseRef, waiters, frameVars, attemptVars,
                   interruptedClean>>

\* The session promise resolves: the reactions registered on it run in order.
ResolveSession(s) ==
    /\ discStreak' = 0
    /\ UNCHANGED cancelled
    /\ promise[s] = "resolving"
    /\ LET st == RunWaiters(s, waiters[s],
                    [sent |-> sent, rem |-> remote, ref |-> sessionPromiseRef]) IN
       /\ sent' = st.sent
       /\ remote' = st.rem
       /\ sessionPromiseRef' = st.ref
    /\ promise' = [promise EXCEPT ![s] = "resolved"]
    /\ waiters' = [waiters EXCEPT ![s] = <<>>]
    /\ UNCHANGED <<uiVars, envVars, currentTime, captureVars, playVars, frames,
                   attemptVars, interruptedClean>>

\* onclose: console.log and setConnectionState('disconnected'), nothing else.
OnClose(s) ==
    /\ discStreak' = 0
    /\ UNCHANGED cancelled
    /\ remote[s] \in {"open", "closing", "dead"}
    /\ remote' = [remote EXCEPT ![s] = "closed"]
    /\ connectionState' = "disconnected"
    /\ UNCHANGED <<isMicOn, errorMsg, envVars, currentTime, captureVars, playVars,
                   sessionPromiseRef, promise, waiters, frameVars, attemptVars, interruptedClean>>

\* The remote state after an error: the connection is lost and its close
\* event follows; a session that never opened never resolves its promise.
Errored(rem, s) ==
    [rem EXCEPT ![s] = IF @ = "connecting" THEN "dead" ELSE "closing"]

\* onerror: setErrorMsg(generic message); disconnect().
OnError(s) ==
    /\ discStreak' = 0
    /\ cancelled' = TRUE
    /\ remote[s] \in {"connecting", "open"}
    /\ CanDisconnect
    /\ errorMsg' = GenericError
    /\ DisconnectBody(Errored(remote, s))
    /\ UNCHANGED <<isMicOn, envVars, currentTime, promise, frameVars, attemptVars,
                   interruptedClean>>

\* ---------------------------------------------------------------- capture
\* toggleMic: the mute button of the live-call screen.
ToggleMic ==
    /\ discStreak' = 0
    /\ UNCHANGED cancelled
    /\ connectionState = "connected"
    /\ isMicOn' = ~isMicOn
    /\ UNCHANGED <<connectionState, errorMsg, envVars, currentTime, captureVars,
                   playVars, sessVars, frameVars, attemptVars,
                   interruptedClean>>

\* The isMicOn that onaudioprocess of attempt p reads: the constant of the
\* render in which connectToGemini was called.
MicOnSeenBy(p) == micCaptured[p]

\* scriptProcessor.onaudioprocess of attempt p: return if muted, else make the
\* blob and register sessionPromise.then(session => session.sendRealtimeInput).
CaptureTick(p) ==
    /\ discStreak' = 0
    /\ UNCHANGED cancelled
    /\ p \in procConn
    /\ Len(frames) < MaxFrames
    /\ LET f == Len(frames) + 1
           made == MicOnSeenBy(p) IN
       /\ frames' = Append(frames, [s |-> p, micOn |-> isMicOn,
                                    conn |-> connectionState = "connected",
                                    made |-> made])
       /\ IF ~made
          THEN UNCHANGED <<sent, waiters>>
          ELSE IF promise[p] = "resolved"
          THEN /\ sent' = Append(sent, [s |-> p, f |-> f, open |-> remote[p] = "open"])
               /\ UNCHANGED waiters
          ELSE /\ waiters' = [waiters EXCEPT ![p] = Append(@, f)]
               /\ UNCHANGED sent
    /\ UNCHANGED <<uiVars, envVars, currentTime, captureVars, playVars,
                   sessionPromiseRef, remote, promise, attemptVars,
                   interruptedClean>>

\* --------------------------------------------------------------- playback
\* nextStartTimeRef.current = Math.max(nextStartTimeRef.current, outputCtx.currentTime)
SyncCursor(cursor, now) == Max(cursor, now)

\* A scheduler that forgets to advance the cursor past the unit it started.
CursorNotAdvanced(cursor, duration) == cursor

\* nextStartTimeRef.current += audioBuffer.duration
AdvanceCursor(cursor, duration) == cursor + duration

\* History: what precedes a payload that arrives now.  It is "chained" when the
\* payload before it was received with no stopAudioOutput since and has not
\* reached its scheduled end (it is still being decoded, or it was started and
\* the output clock is before its start time plus its duration); else "fresh".
Preceded ==
    LET a == Len(payloads) IN
    IF /\ a > 0
       /\ \/ payloads[a].st = "decoding" /\ payloads[a].pre # "cut"
          \/ \E i \in DOMAIN sched :
                /\ sched[i].p = a
                /\ sched[i].pre # "cut"
                /\ currentTime < sched[i].start + sched[i].dur
    THEN "chained" ELSE "fresh"

\* onmessage with an audio payload of duration d, up to the await of
\* decodeAudioData.  intr is the interrupted flag of the same message, kept
\* for as long as the handler has it to handle.
OnMessageAudio(s, d, intr) ==
    /\ discStreak' = 0
    /\ UNCHANGED cancelled
    /\ remote[s] = "open"
    /\ Len(payloads) < MaxPayloads
    /\ nextStartTime' = SyncCursor(nextStartTime, currentTime)
    /\ payloads' = Append(payloads, [dur |-> d, intr |-> intr, st |-> "decoding",
                                     end |-> 0, pre |-> Preceded])
    /\ interruptedClean' = FALSE
    /\ UNCHANGED <<uiVars, envVars, currentTime, captureVars, audioSources, sched,
                   sessVars, frameVars, attemptVars>>

\* onmessage with no audio payload and the interrupted flag: stopAudioOutput.
OnMessageInterrupted(s) ==
    /\ discStreak' = 0
    /\ UNCHANGED cancelled
    /\ remote[s] = "open"
    /\ StopAudioOutput
    /\ interruptedClean' = TRUE
    /\ UNCHANGED <<uiVars, envVars, currentTime, captureVars, sessVars, frameVars,
                   attemptVars>>

\* The time passed to source.start for the payload being scheduled.
StartTime == nextStartTime

\* The time a source started now with start time t and duration d stops by
\* itself: it starts at t, or at once if t has passed.
EndTime(t, d) == Max(t, currentTime) + d

\* A handler that tracks a source for the chunk even when decoding threw.
TrackedAlways(p, ok) == audioSources \cup {p}

\* A handler that starts the source and never adds it to the set.
TrackedNever(p, ok) == audioSources

\* audioSourcesRef.current.add(source), reached only if nothing threw before.
Tracked(p, ok) == IF ok THEN audioSources \cup {p} ELSE audioSources

\* The rest of onmessage after decodeAudioData settles (ok) or throws (~ok):
\* start the source, advance the cursor and track the source, or log and drop
\* the chunk; then stopAudioOutput if the message was also interrupted.
DecodeDone(p, ok) ==
    /\ discStreak' = 0
    /\ UNCHANGED cancelled
    /\ p \in DOMAIN payloads
    /\ payloads[p].st = "decoding"
    /\ LET d == payloads[p].dur
           ps == [payloads EXCEPT
                    ![p].st = IF ok THEN "playing" ELSE "dropped",
                    ![p].end = IF ok THEN EndTime(StartTime, d) ELSE 0,
                    ![p].intr = FALSE,
                    ![p].pre = "cut"]
           started == IF ok THEN Append(sched, [p |-> p, start |-> StartTime, dur |-> d,
                                                pre |-> payloads[p].pre])
                      ELSE sched
           tracked == Tracked(p, ok)
           cursor == IF ok THEN AdvanceCursor(nextStartTime, d) ELSE nextStartTime IN
       IF payloads[p].intr
       THEN /\ payloads' = FlushSeen(StoppedUnits(ps, tracked))
            /\ sched' = <<>>
            /\ audioSources' = {}
            /\ nextStartTime' = FlushedCursor
            /\ interruptedClean' = TRUE
       ELSE /\ payloads' = ps
            /\ sched' = started
            /\ audioSources' = tracked
            /\ nextStartTime' = cursor
            /\ UNCHANGED interruptedClean
    /\ UNCHANGED <<uiVars, envVars, currentTime, captureVars, sessVars, frameVars,
                   attemptVars>>

\* The 'ended' listener of a source that played to its end:
\* audioSourcesRef.current.delete(source).
Ended(p) ==
    /\ discStreak' = 0
    /\ UNCHANGED cancelled
    /\ p \in DOMAIN payloads
    /\ payloads[p].st = "playing"
    /\ currentTime >= payloads[p].end
    /\ payloads' = [payloads EXCEPT ![p].st = "ended", ![p].end = 0]
    /\ audioSources' = audioSources \ {p}
    /\ UNCHANGED <<uiVars, envVars, currentTime, captureVars, nextStartTime, sched,
                   sessVars, frameVars, attemptVars, interruptedClean>>

\* The output clock advances.
AdvanceClock ==
    /\ discStreak' = 0
    /\ UNCHANGED cancelled
    /\ currentTime < MaxTime
    /\ currentTime' = currentTime + 1
    /\ UNCHANGED <<uiVars, envVars, captureVars, playVars, sessVars, frameVars,
                   attemptVars, interruptedClean>>

\* ----------------------------------------------------------- specification
\* connectToGemini, disconnect and the session callbacks, with at most n calls
\* of connectToGemini.
Lifecycle(n) ==
    \/ pc[n] = "idle" /\ Connect
    \/ \E a \in Sessions : GetUserMediaResolve(a)
    \/ \E a \in Sessions : GetUserMediaReject(a)
    \/ \E a \in Sessions : ResumeInputResolve(a)
    \/ \E a \in Sessions : ResumeOutputResolve(a)
    \/ \E a \in Sessions : ResumeReject(a)
    \/ \E s \in Sessions : OnOpen(s)
    \/ \E s \in Sessions : ResolveSession(s)
    \/ \E s \in Sessions : OnClose(s)
    \/ \E s \in Sessions : OnError(s)

\* The mute button and the capture ticks.
Capture ==
    \/ ToggleMic
    \/ \E p \in Sessions : CaptureTick(p)

\* The inbound messages and the playback scheduler, with at most n audio
\* payloads.
Playback(n) ==
    \/ Len(payloads) < n /\
          \E s \in Sessions, d \in Durations, intr \in BOOLEAN : OnMessageAudio(s, d, intr)
    \/ \E s \in Sessions : OnMessageInterrupted(s)
    \/ \E p \in 1..MaxPayloads, ok \in BOOLEAN : DecodeDone(p, ok)
    \/ \E p \in 1..MaxPayloads : Ended(p)
    \/ AdvanceClock

\* The controller alone: no capture tick, no inbound message.
NextLifecycle ==
    \/ Disconnect
    \/ Lifecycle(MaxSessions)

SpecLifecycle == Init /\ [][NextLifecycle]_vars

\* The controller and the capture pipeline.
NextCapture ==
    \/ Disconnect
    \/ Lifecycle(MaxSessions)
    \/ Capture

SpecCapture == Init /\ [][NextCapture]_vars

\* The controller, for one session, and the playback scheduler.
NextPlayback ==
    \/ Disconnect
    \/ Lifecycle(PlaybackSessions)
    \/ Playback(MaxPayloads)

SpecPlayback == Init /\ [][NextPlayback]_vars

\* The controller over several sessions with the playback scheduler, for what
\* a later session inherits from an earlier one.
NextReconnect ==
    \/ Disconnect
    \/ Lifecycle(MaxSessions)
    \/ Playback(ReconnectPayloads)

SpecReconnect == Init /\ [][NextReconnect]_vars

\* Everything.
Next ==
    \/ Disconnect
    \/ Lifecycle(MaxSessions)
    \/ Capture
    \/ Playback(MaxPayloads)

Spec == Init /\ [][Next]_vars

\* ------------------------------------------------------------------ claims
\* No microphone stream has live tracks and no capture node is connected.
CaptureStopped == streamLive = {} /\ sourceConn = {} /\ procConn = {}

\* ActivePlaybackSet is empty and the cursor is 0.
PlaybackFlushed == audioSources = {} /\ nextStartTime = 0

\* No onopen was ever delivered.
NeverConnected == \A s \in Sessions : promise[s] \in {"none", "pending"}

\* C1. Scheduler non-overlap: of two sources started one after the other with
\* no stopAudioOutput in between, the second is given a start time no earlier
\* than the first one's start time plus its duration.
C1_NonOverlap ==
    \A i \in 1..(Len(sched) - 1) :
        sched[i + 1].start >= sched[i].start + sched[i].dur

\* Two sources were started with no flush in between, the second one after the
\* clock had passed the end of the first (a gap, not only exact chaining).
C1_Witness ==
    /\ Len(sched) >= 2
    /\ sched[2].start > sched[1].start + sched[1].dur

\* C2. Interruption: once an interrupted message has been handled while
\* connected, and until the next audio payload arrives, nothing is playing or
\* scheduled, ActivePlaybackSet is empty and nextStartTime is 0.
C2_Interruption ==
    (connectionState = "connected" /\ interruptedClean) =>
        /\ PlaybackFlushed
        /\ \A p \in DOMAIN payloads : payloads[p].st # "playing"

\* C3. Mute gating: a capture tick makes and sends a chunk exactly when the
\* microphone is not muted (isMicOn) at the time of the tick.
C3_MuteGating ==
    \A i \in DOMAIN frames : frames[i].made <=> frames[i].micOn

\* C4. Remote close teardown: onclose of the open session while connected
\* leaves the state disconnected, capture stopped, playback flushed and the
\* session handle null.
C4_RemoteCloseTeardown ==
    [][\A s \in Sessions :
          (connectionState = "connected" /\ remote[s] = "open" /\ OnClose(s)) =>
              /\ connectionState' = "disconnected"
              /\ CaptureStopped'
              /\ PlaybackFlushed'
              /\ sessionPromiseRef' = NULL]_vars

\* C5. Remote error: onerror while connecting or connected leaves the state
\* error with the generic message, capture stopped and playback flushed, and
\* the session handle null or about to be nulled by the suspended disconnect.
C5_RemoteError ==
    [][\A s \in Sessions :
          (connectionState \in {"connecting", "connected"} /\ OnError(s)) =>
              /\ connectionState' = "error"
              /\ errorMsg' = GenericError
              /\ CaptureStopped'
              /\ PlaybackFlushed'
              /\ \/ sessionPromiseRef' = NULL
                 \/ PendingDisconnects(sessionPromiseRef)' > 0]_vars

\* C6. Idempotent teardown: after a second disconnect() in succession, and
\* after a disconnect() when no session was ever connected, the state is
\* disconnected, capture is stopped and playback is flushed.  (No step of the
\* model raises an error out of disconnect: session.close() is in try/catch.)
C6_IdempotentTeardown ==
    (discStreak = 2 \/ (discStreak >= 1 /\ NeverConnected)) =>
        /\ connectionState = "disconnected"
        /\ CaptureStopped
        /\ PlaybackFlushed

\* A call of connectToGemini that is failing validation in this step: the API
\* key is missing, or getUserMedia rejected.
FailsValidation(a) ==
    \/ pc[a] = "idle" /\ pc'[a] = "failedKey"
    \/ pc[a] = "getUserMedia" /\ pc'[a] = "failedMic"

\* C7. Connect validation failure: a call of connectToGemini that finds the API
\* key missing or is denied the microphone leaves the state error with an
\* error message, and neither then nor later makes the handshake or stores a
\* session handle.
C7_ValidationFailure ==
    /\ [][\A a \in Sessions : FailsValidation(a) =>
            /\ connectionState' = "error"
            /\ errorMsg' \notin {"null", GenericError}
            /\ UNCHANGED <<remote, promise, sessionPromiseRef>>]_vars
    /\ [](\A a \in Sessions : pc[a] \in {"failedKey", "failedMic"} =>
            /\ remote[a] = "none"
            /\ promise[a] = "none"
            /\ sessionPromiseRef # a)

\* A call was denied the microphone after an earlier session had been open, and
\* the state is error.
C7_Witness ==
    /\ connectionState = "error"
    /\ \E a \in Sessions : pc[a] = "failedMic"
    /\ ~NeverConnected

\* C8. No dangling device handles: when the state is disconnected or error and
\* no call of connectToGemini is in progress, no stream has live tracks and no
\* capture node is connected.
C8_NoDanglingHandles ==
    (/\ connectionState \in {"disconnected", "error"}
     /\ \A a \in Sessions : pc[a] \notin {"getUserMedia", "resumeInput", "resumeOutput"})
        => CaptureStopped

\* C9. Session open: onopen in state connecting leaves the state connected,
\* the capture nodes of the session connected, and nextStartTime 0.
C9_SessionOpen ==
    [][\A s \in Sessions :
          (connectionState = "connecting" /\ OnOpen(s)) =>
              /\ connectionState' = "connected"
              /\ s \in sourceConn' /\ s \in procConn'
              /\ nextStartTime' = 0]_vars

\* C10. Outbound ordering: every capture tick taken while connected and not
\* muted has exactly one sendRealtimeInput, issued or registered on the session
\* promise, and the sends of a session are issued in tick order.
C10_OutboundOrdering ==
    /\ \A i \in DOMAIN frames :
          (frames[i].conn /\ frames[i].micOn) =>
              Cardinality({j \in DOMAIN sent : sent[j].f = i})
                + Cardinality({j \in DOMAIN waiters[frames[i].s] :
                                  waiters[frames[i].s][j] = i}) = 1
    /\ \A j, k \in DOMAIN sent :
          (j < k /\ sent[j].s = sent[k].s) => sent[j].f < sent[k].f

\* C11. Gapless chaining: while connected, of two payloads received one after
\* the other with no stopAudioOutput in between, the second received before
\* the scheduled end of the first, the second is given the start time
\* start(first) + duration(first).
C11_GaplessChaining ==
    connectionState = "connected" =>
        \A i, j \in DOMAIN sched :
            (/\ sched[j].p = sched[i].p + 1
             /\ sched[j].pre = "chained"
             /\ sched[i].pre # "cut")
                => sched[j].start = sched[i].start + sched[i].dur

\* C12. Decode failure is local: when decodeAudioData throws, the chunk is
\* dropped (no source started or tracked for it), the connection state, the
\* capture pipeline and the session are left as they were, and a payload
\* decoded after a dropped one is still started.
C12_DecodeFailureLocal ==
    [][/\ \A p \in 1..MaxPayloads :
            DecodeDone(p, FALSE) =>
                /\ payloads'[p].st = "dropped"
                /\ p \notin audioSources'
                /\ \A i \in DOMAIN sched' : sched'[i].p # p
                /\ UNCHANGED <<connectionState, errorMsg, captureVars,
                               sessionPromiseRef, remote, promise>>
       /\ \A q \in 1..MaxPayloads :
            (/\ DecodeDone(q, TRUE)
             /\ \E p \in 1..(q - 1) : payloads[p].st = "dropped")
                => /\ payloads'[q].st \in {"playing", "stopped"}
                   /\ ~payloads[q].intr => q \in audioSources']_vars

\* While connected with capture running, the first chunk was dropped and the
\* second one plays.
C12_Witness ==
    /\ connectionState = "connected"
    /\ procConn # {}
    /\ Len(payloads) = 2
    /\ payloads[1].st = "dropped"
    /\ payloads[2].st = "playing"
    /\ 2 \in audioSources

\* A step that runs stopAudioOutput: disconnect(), onerror, an interrupted
\* message, or the end of the handler of an audio message that was also
\* interrupted.
Flushes ==
    \/ Disconnect
    \/ \E s \in Sessions : OnError(s)
    \/ \E s \in Sessions : OnMessageInterrupted(s)
    \/ \E p \in 1..MaxPayloads, ok \in BOOLEAN : DecodeDone(p, ok) /\ payloads[p].intr

\* C13. Flush clears state: right after stopAudioOutput, ActivePlaybackSet is
\* empty, nextStartTime is 0 and no source is playing or waiting to play,
\* however many sources were tracked (played out or not).
C13_FlushClears ==
    [][Flushes =>
          /\ audioSources' = {}
          /\ nextStartTime' = 0
          /\ \A p \in DOMAIN payloads' : payloads'[p].st # "playing"]_vars

\* A flush stopped two tracked sources, and the set is empty and the cursor 0.
C13_Witness ==
    /\ Len(payloads) = 2
    /\ payloads[1].st = "stopped"
    /\ payloads[2].st = "stopped"
    /\ audioSources = {}
    /\ nextStartTime = 0

\* A call of connectToGemini is suspended before ai.live.connect: the state is
\* already connecting and the session of the attempt does not exist yet.
BeforeHandshake ==
    \E a \in Sessions : pc[a] \in {"getUserMedia", "resumeInput", "resumeOutput"}

\* C14. Session handle validity: a session handle is held (sessionPromiseRef
\* is not null) exactly when the state is connecting or connected, and no
\* sendRealtimeInput is issued on a session that was closed or has errored.
\* (The states in which an attempt has not reached ai.live.connect yet are
\* left out: there the state is connecting and no handle exists so far.)
C14_HandleValidity ==
    /\ ~BeforeHandshake =>
          (sessionPromiseRef # NULL <=> connectionState \in {"connecting", "connected"})
    /\ \A i \in DOMAIN sent : sent[i].open

\* C15. Start time never in the past: the start time passed to source.start
\* is at least the output clock at the moment of the call.
C15_StartNotInPast ==
    [][\A p \in 1..MaxPayloads :
          DecodeDone(p, TRUE) => StartTime >= currentTime]_vars

\* C16. Inbound arrival order: of two payloads received with no
\* stopAudioOutput in between, the one received first is started first and is
\* given the smaller start time.
C16_ArrivalOrder ==
    \A i, j \in DOMAIN sched :
        (/\ sched[i].p < sched[j].p
         /\ sched[i].pre # "cut")
            => /\ i < j
               /\ sched[i].start < sched[j].start

\* C17. ActivePlaybackSet tracking: the set holds exactly the sources that
\* were started and have neither fired ended nor been stopped by a flush.
C17_ActiveSetTracking ==
    audioSources = {p \in DOMAIN payloads : payloads[p].st = "playing"}

\* One source played to its end and left the set while a later one is still
\* tracked.
C17_Witness ==
    /\ Len(payloads) = 2
    /\ payloads[1].st = "ended"
    /\ payloads[2].st = "playing"
    /\ audioSources = {2}

\* C18. Disconnect is final for the attempt: from a call of disconnect() to
\* the next call of connectToGemini the state stays disconnected, no
\* microphone stream is acquired and no capture node is connected.
C18_DisconnectFinal ==
    [][(cancelled /\ cancelled') =>
          /\ connectionState' = "disconnected"
          /\ streamLive' \subseteq streamLive
          /\ sourceConn' \subseteq sourceConn
          /\ procConn' \subseteq procConn]_vars

\* C19. Single capture owner: at most one microphone stream has live tracks
\* and at most one script processor is connected, and a stream or node ref is
\* never given a new value while the one it holds is still live.
C19_SingleCaptureOwner ==
    /\ [](Cardinality(streamLive) <= 1 /\ Cardinality(procConn) <= 1)
    /\ [][/\ (streamRef' # streamRef /\ streamRef # NULL) => streamRef \notin streamLive'
          /\ (processorRef' # processorRef /\ processorRef # NULL) =>
                processorRef \notin procConn'
          /\ (sourceRef' # sourceRef /\ sourceRef # NULL) =>
                sourceRef \notin sourceConn']_vars

\* C20. Disconnect does not clobber a newer session: when a disconnect() that
\* was suspended on the promise of session s resumes after a later call of
\* connectToGemini has stored another handle, it closes s only and the stored
\* handle stays.
C20_NoClobber ==
    [][\A s \in Sessions :
          (/\ ResolveSession(s)
           /\ PendingDisconnects(s) > 0
           /\ sessionPromiseRef \notin {NULL, s})
              => /\ sessionPromiseRef' = sessionPromiseRef
                 /\ \A t \in Sessions \ {s} : remote'[t] = remote[t]]_vars

====
